---- MODULE Spec2Model ----
(***************************************************************************)
(* Model of app.py: the Gradio front-end of the financial Q&A chatbot.     *)
(*                                                                         *)
(* Texts are sequences of tokens: a Python string is the concatenation of  *)
(* its tokens, a filename or str(e) being one token.  The remote service   *)
(* is the environment: every HTTP round trip either succeeds or raises     *)
(* one of the exceptions of Outcomes.                                      *)
(***************************************************************************)
EXTENDS Integers, Sequences, FiniteSets, TLC

VARIABLES
    backend,          \* the remote index: sequence of [file_id, filename]
    nextId,           \* number of file ids the remote service has assigned
    file_upload,      \* gr.File value (input of upload_file)
    status_box,       \* gr.Textbox "Status"
    db_info,          \* gr.JSON "Database Info"
    file_checkboxes,  \* gr.CheckboxGroup: [choices, value]
    delete_status,    \* gr.Textbox "Delete Status"
    file_list_debug,  \* gr.JSON "[DEBUG] Raw File List from API"
    chain,            \* which click chain is running or ran last
    pc,               \* next step of that chain
    ran,              \* handlers that chain has run, in order
    log,              \* I/O events of that chain, in program order
    propagated,       \* exception a handler let escape to the UI layer
    chatbot,          \* gr.Chatbot value: the transcript
    msg,              \* gr.Textbox "Message"
    chatpc,           \* next step of the chat chain
    sent,             \* JSON body of the last POST /chat
    reply,            \* what the last POST /chat produced
    called,           \* API-client function called last (direct calls)
    ret               \* its return value

vars == << backend, nextId, file_upload, status_box, db_info, file_checkboxes,
           delete_status, file_list_debug, chain, pc, ran, log, propagated,
           chatbot, msg, chatpc, sent, reply, called, ret >>

fileVars == << file_upload, status_box, db_info, file_checkboxes,
               delete_status, file_list_debug, chain, pc, ran >>
chatVars == << chatbot, msg, chatpc, sent, reply >>
apiVars  == << called, ret >>

----------------------------------------------------------------------------
(* Bounds of the model *)

MaxFiles   == 2     \* records the remote index ever holds (ids it assigns)
MaxSel     == 2     \* filenames ticked in one delete click at most
MaxTurns   == 2     \* chat turns in one session at most
MaxSources == 2     \* sources the remote service cites at most

Filenames == {"a.pdf", "missing.pdf"}
Messages  == {"q1", "q2"}
Answers   == {"answer"}

\* Sequences over S of length at most n.
SeqsUpTo(S, n) == UNION { [1..k -> S] : k \in 0..n }

----------------------------------------------------------------------------
(* Python values *)

NoExc  == "none"       \* no exception
NoneId == "None"       \* Python None in file_id
Unset  == [unset |-> TRUE]          \* a widget nobody has written yet
NoFile == [present |-> FALSE, name |-> "", readable |-> FALSE]   \* file is None

\* Outcome of one HTTP round trip, raise_for_status() included.
Outcomes == {"ok", "ConnectionError", "HTTPError"}

\* isinstance(e, requests.exceptions.RequestException)
IsRequestException(e) == e \in {"ConnectionError", "HTTPError"}

\* Python truthiness of a file_id.  The ids the remote service assigns are
\* non-empty strings (IdOf), on which this is the test for "a record matched".
Truthy(file_id) == file_id # NoneId /\ file_id # ""

IdOf(n) == IF n = 1 THEN "id1" ELSE IF n = 2 THEN "id2"
           ELSE IF n = 3 THEN "id3" ELSE "id4"

ErrorDict(message) == [status |-> "error", message |-> message]

\* sep.join(items) for a list of tokens.
RECURSIVE Join(_, _)
Join(items, sep) ==
    IF items = <<>> THEN <<>>
    ELSE IF Len(items) = 1 THEN <<items[1]>>
    ELSE <<items[1], sep>> \o Join(Tail(items), sep)

\* sep.join(items) for a list of texts.
RECURSIVE JoinTexts(_, _)
JoinTexts(items, sep) ==
    IF items = <<>> THEN <<>>
    ELSE IF Len(items) = 1 THEN items[1]
    ELSE items[1] \o <<sep>> \o JoinTexts(Tail(items), sep)

----------------------------------------------------------------------------
(* I/O events.  A blocking call is a start event followed by its end event. *)

Ev(op, a, phase, res, data, tag) ==
    [step |-> "", op |-> op, arg |-> a, phase |-> phase, res |-> res,
     data |-> data, tag |-> tag]

Blocking(op, a, res, data, tag) ==
    << Ev(op, a, "start", "pending", <<>>, tag), Ev(op, a, "end", res, data, tag) >>

InStep(step, evs) == [i \in DOMAIN evs |-> [evs[i] EXCEPT !.step = step]]

HasId(b, id) == \E i \in DOMAIN b : b[i].file_id = id

RemoveId(b, id) == SelectSeq(b, LAMBDA r : r.file_id # id)

\* requests.get(f"{BASE_URL}/vector-db/info"); raise_for_status(); json()
requests_get_info(b, o) ==
    [exc  |-> IF o = "ok" THEN NoExc ELSE o,
     json |-> [status |-> "success", files |-> b],
     log  |-> Blocking("GET", "/vector-db/info", o, IF o = "ok" THEN b ELSE <<>>, 0)]

\* requests.post(f"{BASE_URL}/vector-db/add-document", files=files)
requests_post_add(b, n, name, o) ==
    [exc     |-> IF o = "ok" THEN NoExc ELSE o,
     json    |-> [status |-> "success", file_id |-> IdOf(n + 1)],
     backend |-> IF o = "ok"
                 THEN Append(b, [file_id |-> IdOf(n + 1), filename |-> name])
                 ELSE b,
     nextId  |-> IF o = "ok" THEN n + 1 ELSE n,
     log     |-> Blocking("POST", "/vector-db/add-document", o, <<>>, 0)]

\* requests.delete(f"{BASE_URL}/vector-db/delete-document/{file_id}")
\* The remote service answers 404 for an id it does not hold.
requests_delete(b, file_id, o, tag) ==
    LET res == IF o = "ok" /\ ~HasId(b, file_id) THEN "HTTPError" ELSE o
    IN  [exc     |-> IF res = "ok" THEN NoExc ELSE res,
         json    |-> [status |-> "success", file_id |-> file_id],
         backend |-> IF res = "ok" THEN RemoveId(b, file_id) ELSE b,
         log     |-> Blocking("DELETE", file_id, res, <<>>, tag)]

----------------------------------------------------------------------------
(* API client *)

get_vector_db_info(b, o) ==
    LET r == requests_get_info(b, o)
    IN  IF r.exc # NoExc
        THEN [raised |-> NoExc, value |-> ErrorDict(<<r.exc>>), log |-> r.log]
        ELSE [raised |-> NoExc, value |-> r.json, log |-> r.log]

\* The body of the try block of upload_file: exc is what it raises.
upload_try(file, b, n, o) ==
    IF ~file.present
    THEN [exc |-> NoExc, value |-> ErrorDict(<<"No file selected">>),
          backend |-> b, nextId |-> n, log |-> <<>>]
    ELSE IF ~file.readable
    THEN \* open(file_path, 'rb') raises OSError
         [exc |-> "OSError", value |-> Unset, backend |-> b, nextId |-> n,
          log |-> Blocking("open", file.name, "OSError", <<>>, 0)]
    ELSE LET r == requests_post_add(b, n, file.name, o)
         IN  [exc |-> r.exc, value |-> r.json,
              backend |-> r.backend, nextId |-> r.nextId,
              log |-> Blocking("open", file.name, "ok", <<>>, 0) \o r.log]

\* Mutant: only `except requests.exceptions.RequestException` is there.
upload_file_Narrow(file, b, n, o) ==
    LET t == upload_try(file, b, n, o)
    IN  IF t.exc # NoExc /\ IsRequestException(t.exc)
        THEN [raised |-> NoExc, value |-> ErrorDict(<<"Network error: ", t.exc>>),
              backend |-> t.backend, nextId |-> t.nextId, log |-> t.log]
        ELSE [raised |-> t.exc, value |-> t.value,
              backend |-> t.backend, nextId |-> t.nextId, log |-> t.log]

\* Mutant: the `if file is None` test is missing, so file.name raises.
upload_file_NoGuard(file, b, n, o) ==
    LET t == IF ~file.present
             THEN [exc |-> "AttributeError", value |-> Unset,
                   backend |-> b, nextId |-> n, log |-> <<>>]
             ELSE upload_try(file, b, n, o)
    IN  IF t.exc # NoExc /\ IsRequestException(t.exc)
        THEN [raised |-> NoExc, value |-> ErrorDict(<<"Network error: ", t.exc>>),
              backend |-> t.backend, nextId |-> t.nextId, log |-> t.log]
        ELSE IF t.exc # NoExc
        THEN [raised |-> NoExc, value |-> ErrorDict(<<"Upload error: ", t.exc>>),
              backend |-> t.backend, nextId |-> t.nextId, log |-> t.log]
        ELSE [raised |-> NoExc, value |-> t.value,
              backend |-> t.backend, nextId |-> t.nextId, log |-> t.log]

upload_file(file, b, n, o) ==
    LET t == upload_try(file, b, n, o)
    IN  IF t.exc # NoExc /\ IsRequestException(t.exc)
        THEN [raised |-> NoExc, value |-> ErrorDict(<<"Network error: ", t.exc>>),
              backend |-> t.backend, nextId |-> t.nextId, log |-> t.log]
        ELSE IF t.exc # NoExc
        THEN [raised |-> NoExc, value |-> ErrorDict(<<"Upload error: ", t.exc>>),
              backend |-> t.backend, nextId |-> t.nextId, log |-> t.log]
        ELSE [raised |-> NoExc, value |-> t.value,
              backend |-> t.backend, nextId |-> t.nextId, log |-> t.log]

delete_file(file_id, b, o) ==
    LET r == requests_delete(b, file_id, o, 0)
    IN  IF r.exc # NoExc
        THEN [raised |-> NoExc, value |-> ErrorDict(<<r.exc>>),
              backend |-> r.backend, log |-> r.log]
        ELSE [raised |-> NoExc, value |-> r.json,
              backend |-> r.backend, log |-> r.log]

----------------------------------------------------------------------------
(* File registry view *)

get_uploaded_files_info(b, o) ==
    LET r == requests_get_info(b, o)
    IN  IF r.exc # NoExc
        THEN [value |-> <<>>, log |-> r.log]
        ELSE [value |-> r.json.files, log |-> r.log]

get_filenames_list(b, o) ==
    LET r == get_uploaded_files_info(b, o)
    IN  [value |-> [i \in DOMAIN r.value |-> r.value[i].filename], log |-> r.log]

\* Mutant: the inner loop without its break, so the last record named fname wins.
RECURSIVE Lookup_Last(_, _, _)
Lookup_Last(files_info, fname, i) ==
    IF i > Len(files_info) THEN NoneId
    ELSE LET rest == Lookup_Last(files_info, fname, i + 1)
         IN  IF rest # NoneId THEN rest
             ELSE IF files_info[i].filename = fname THEN files_info[i].file_id
             ELSE NoneId

\* The inner loop of delete_files_from_db: the first record named fname.
RECURSIVE Lookup(_, _, _)
Lookup(files_info, fname, i) ==
    IF i > Len(files_info) THEN NoneId
    ELSE IF files_info[i].filename = fname THEN files_info[i].file_id
    ELSE Lookup(files_info, fname, i + 1)

\* The outer loop of delete_files_from_db, from the i-th selected filename on.
RECURSIVE DeleteLoop(_, _, _, _, _)
DeleteLoop(filenames, i, files_info, outs, acc) ==
    IF i > Len(filenames) THEN acc
    ELSE LET fname   == filenames[i]
             file_id == Lookup(files_info, fname, 1)
         IN  IF Truthy(file_id)
             THEN LET r == requests_delete(acc.backend, file_id, outs[i], i)
                  IN  DeleteLoop(filenames, i + 1, files_info, outs,
                        IF r.exc = NoExc
                        THEN [acc EXCEPT !.deleted = Append(@, fname),
                                         !.backend = r.backend,
                                         !.log = @ \o r.log]
                        ELSE [acc EXCEPT !.errors = Append(@, <<fname, ": ", r.exc>>),
                                         !.backend = r.backend,
                                         !.log = @ \o r.log])
             ELSE DeleteLoop(filenames, i + 1, files_info, outs,
                        [acc EXCEPT !.errors = Append(@, <<fname, ": ", "Not found">>)])

\* Mutant: `elif errors`, so the errors are dropped when something was deleted.
Summary_Elif(deleted, errors) ==
    IF deleted # <<>>
    THEN <<"Deleted: ">> \o Join(deleted, ", ") \o <<". ">>
    ELSE IF errors # <<>>
    THEN <<"Errors: ">> \o JoinTexts(errors, "; ")
    ELSE <<"No files deleted.">>

\* msg, built from the two lists.
Summary(deleted, errors) ==
    LET m1 == IF deleted # <<>>
              THEN <<"Deleted: ">> \o Join(deleted, ", ") \o <<". ">>
              ELSE <<>>
        m2 == IF errors # <<>>
              THEN m1 \o <<"Errors: ">> \o JoinTexts(errors, "; ")
              ELSE m1
    IN  IF m2 # <<>> THEN m2 ELSE <<"No files deleted.">>

\* Mutant: the index is fetched before the selection is tested.
delete_files_from_db_FetchFirst(filenames, b, o, outs) ==
    LET info == get_uploaded_files_info(b, o)
        acc  == DeleteLoop(filenames, 1, info.value, outs,
                   [deleted |-> <<>>, errors |-> <<>>, backend |-> b,
                    log |-> info.log])
    IN  IF filenames = <<>>
        THEN [value |-> <<"No files selected.">>, backend |-> b, log |-> info.log]
        ELSE [value |-> Summary(acc.deleted, acc.errors),
              backend |-> acc.backend, log |-> acc.log]

delete_files_from_db(filenames, b, o, outs) ==
    IF filenames = <<>>
    THEN [value |-> <<"No files selected.">>, backend |-> b, log |-> <<>>]
    ELSE LET info == get_uploaded_files_info(b, o)
             acc  == DeleteLoop(filenames, 1, info.value, outs,
                        [deleted |-> <<>>, errors |-> <<>>, backend |-> b,
                         log |-> info.log])
         IN  [value |-> Summary(acc.deleted, acc.errors),
              backend |-> acc.backend, log |-> acc.log]

update_file_checkboxes(b, o) ==
    LET files == get_filenames_list(b, o)
    IN  [value |-> [choices |-> files.value, value |-> <<>>], log |-> files.log]

update_file_list_debug(b, o) == get_uploaded_files_info(b, o)

----------------------------------------------------------------------------
(* UI shell, File Management tab                                           *)
(*                                                                         *)
(* Spec is one user action (upload, refresh or delete) with its chain of   *)
(* refresh steps, on an app just constructed against any remote index of   *)
(* at most MaxFiles documents.  A handler reads its inputs and the remote  *)
(* index only, never a widget another chain has written, so the chains of  *)
(* a longer session are chains of Spec from the index they start on.       *)

Files == {NoFile} \cup
         { [present |-> TRUE, name |-> n, readable |-> r] :
             n \in Filenames, r \in BOOLEAN }

\* The remote service accepts a document only within the bounds of the model.
CanStore == nextId < MaxFiles

\* The remote index holding the documents named by names, in that order.
IndexOf(names) == [i \in DOMAIN names |-> [file_id |-> IdOf(i), filename |-> names[i]]]

\* The app is constructed against a remote index that may hold documents.
InitBackend ==
    /\ backend \in { IndexOf(names) : names \in SeqsUpTo(Filenames, MaxFiles) }
    /\ nextId = Len(backend)

InitFiles ==
    /\ file_upload = NoFile
    /\ status_box = Unset
    /\ db_info = Unset
    /\ \E o \in Outcomes :
         file_checkboxes = [choices |-> get_filenames_list(backend, o).value,
                            value |-> <<>>]
    /\ delete_status = <<>>
    /\ file_list_debug = Unset
    /\ chain = "none"
    /\ pc = "done"
    /\ ran = <<>>
    /\ log = <<>>
    /\ propagated = NoExc

InitChat ==
    /\ chatbot = <<>>
    /\ msg = ""
    /\ chatpc = "done"
    /\ sent = Unset
    /\ reply = Unset

InitApi ==
    /\ called = "none"
    /\ ret = Unset

Init == InitBackend /\ InitFiles /\ InitChat /\ InitApi

\* upload_btn.click(fn=upload_file, inputs=[file_upload], outputs=[status_box])
ClickUpload ==
    /\ chain = "none"
    /\ \E f \in Files, o \in Outcomes :
         /\ (o = "ok" /\ f.present /\ f.readable) => CanStore
         /\ LET r == upload_file(f, backend, nextId, o)
            IN  /\ file_upload' = f
                /\ status_box' = IF r.raised = NoExc THEN r.value ELSE status_box
                /\ propagated' = r.raised
                /\ backend' = r.backend
                /\ nextId' = r.nextId
                /\ log' = InStep("primary", r.log)
    /\ chain' = "upload"
    /\ pc' = "info"
    /\ ran' = <<"upload_file">>
    /\ UNCHANGED << db_info, file_checkboxes, delete_status, file_list_debug >>
    /\ UNCHANGED << chatVars, apiVars >>

\* refresh_btn.click(fn=get_vector_db_info, outputs=[db_info])
ClickRefresh ==
    /\ chain = "none"
    /\ \E o \in Outcomes :
         LET r == get_vector_db_info(backend, o)
         IN  /\ db_info' = IF r.raised = NoExc THEN r.value ELSE db_info
             /\ propagated' = r.raised
             /\ log' = InStep("info", r.log)
    /\ chain' = "refresh"
    /\ pc' = "choice"
    /\ ran' = <<"get_vector_db_info">>
    /\ UNCHANGED << backend, nextId, file_upload, status_box, file_checkboxes,
                    delete_status, file_list_debug >>
    /\ UNCHANGED << chatVars, apiVars >>

\* delete_btn.click(fn=delete_files_from_db, inputs=[file_checkboxes],
\*                  outputs=[delete_status]); the user ticks, then clicks.
ClickDelete ==
    /\ chain = "none"
    /\ \E filenames \in SeqsUpTo(Filenames, MaxSel), o \in Outcomes :
         \E outs \in [1..Len(filenames) -> Outcomes] :
            \* outcomes of calls the handler never makes are not inputs
            /\ filenames = <<>> => o = "ok"
            /\ \A i \in DOMAIN outs :
                  Lookup(get_uploaded_files_info(backend, o).value,
                         filenames[i], 1) = NoneId => outs[i] = "ok"
            /\ LET r == delete_files_from_db(filenames, backend, o, outs)
               IN  /\ file_checkboxes' = [file_checkboxes EXCEPT !.value = filenames]
                   /\ delete_status' = r.value
                   /\ backend' = r.backend
                   /\ log' = InStep("primary", r.log)
    /\ propagated' = NoExc
    /\ chain' = "delete"
    /\ pc' = "info"
    /\ ran' = <<"delete_files_from_db">>
    /\ UNCHANGED << nextId, file_upload, status_box, db_info, file_list_debug >>
    /\ UNCHANGED << chatVars, apiVars >>

\* Mutant: the chain is wired from the info refresh straight to the debug refresh.
ThenInfo_ToDebug ==
    /\ pc = "info"
    /\ \E o \in Outcomes :
         LET r == get_vector_db_info(backend, o)
         IN  /\ db_info' = IF r.raised = NoExc THEN r.value ELSE db_info
             /\ propagated' = IF r.raised # NoExc THEN r.raised ELSE propagated
             /\ log' = log \o InStep("info", r.log)
    /\ pc' = "debug"
    /\ ran' = Append(ran, "get_vector_db_info")
    /\ UNCHANGED << backend, nextId, file_upload, status_box, file_checkboxes,
                    delete_status, file_list_debug, chain >>
    /\ UNCHANGED << chatVars, apiVars >>

\* .then(fn=get_vector_db_info, inputs=None, outputs=[db_info])
ThenInfo ==
    /\ pc = "info"
    /\ \E o \in Outcomes :
         LET r == get_vector_db_info(backend, o)
         IN  /\ db_info' = IF r.raised = NoExc THEN r.value ELSE db_info
             /\ propagated' = IF r.raised # NoExc THEN r.raised ELSE propagated
             /\ log' = log \o InStep("info", r.log)
    /\ pc' = "choice"
    /\ ran' = Append(ran, "get_vector_db_info")
    /\ UNCHANGED << backend, nextId, file_upload, status_box, file_checkboxes,
                    delete_status, file_list_debug, chain >>
    /\ UNCHANGED << chatVars, apiVars >>

\* Mutant: the choices are updated incrementally from what the chain did,
\* without fetching the index again.
ThenChoice_Incremental ==
    /\ pc = "choice"
    /\ file_checkboxes' =
         [choices |->
            IF chain = "upload" /\ status_box.status = "success"
            THEN Append(file_checkboxes.choices, file_upload.name)
            ELSE IF chain = "delete"
            THEN SelectSeq(file_checkboxes.choices,
                           LAMBDA f : \A i \in DOMAIN file_checkboxes.value :
                                        file_checkboxes.value[i] # f)
            ELSE file_checkboxes.choices,
          value |-> <<>>]
    /\ pc' = "debug"
    /\ ran' = Append(ran, "update_file_checkboxes")
    /\ UNCHANGED << backend, nextId, file_upload, status_box, db_info,
                    delete_status, file_list_debug, chain, propagated, log >>
    /\ UNCHANGED << chatVars, apiVars >>

\* .then(fn=update_file_checkboxes, inputs=None, outputs=[file_checkboxes])
ThenChoice ==
    /\ pc = "choice"
    /\ \E o \in Outcomes :
         LET r == update_file_checkboxes(backend, o)
         IN  /\ file_checkboxes' = r.value
             /\ log' = log \o InStep("choice", r.log)
    /\ pc' = "debug"
    /\ ran' = Append(ran, "update_file_checkboxes")
    /\ UNCHANGED << backend, nextId, file_upload, status_box, db_info,
                    delete_status, file_list_debug, chain, propagated >>
    /\ UNCHANGED << chatVars, apiVars >>

\* .then(fn=update_file_list_debug, inputs=None, outputs=[file_list_debug])
ThenDebug ==
    /\ pc = "debug"
    /\ \E o \in Outcomes :
         LET r == update_file_list_debug(backend, o)
         IN  /\ file_list_debug' = r.value
             /\ log' = log \o InStep("debug", r.log)
    /\ pc' = "done"
    /\ ran' = Append(ran, "update_file_list_debug")
    /\ UNCHANGED << backend, nextId, file_upload, status_box, db_info,
                    file_checkboxes, delete_status, chain, propagated >>
    /\ UNCHANGED << chatVars, apiVars >>

Next == ClickUpload \/ ClickRefresh \/ ClickDelete
        \/ ThenInfo \/ ThenChoice \/ ThenDebug

Spec == Init /\ [][Next]_vars

----------------------------------------------------------------------------
(* The API client called directly, one function per call *)

FileIds == { IdOf(k) : k \in 1..MaxFiles }

CallGetInfo ==
    /\ \E o \in Outcomes :
         LET r == get_vector_db_info(backend, o)
         IN  /\ ret' = r.value
             /\ propagated' = r.raised
             /\ log' = InStep("call", r.log)
    /\ called' = "get_vector_db_info"
    /\ UNCHANGED << backend, nextId >>
    /\ UNCHANGED << fileVars, chatVars >>

CallUpload ==
    /\ \E f \in Files, o \in Outcomes :
         /\ (o = "ok" /\ f.present /\ f.readable) => CanStore
         /\ LET r == upload_file(f, backend, nextId, o)
            IN  /\ ret' = r.value
                /\ propagated' = r.raised
                /\ backend' = r.backend
                /\ nextId' = r.nextId
                /\ log' = InStep("call", r.log)
                /\ file_upload' = f
    /\ called' = "upload_file"
    /\ UNCHANGED << status_box, db_info, file_checkboxes, delete_status,
                    file_list_debug, chain, pc, ran >>
    /\ UNCHANGED chatVars

CallDelete ==
    /\ \E file_id \in FileIds, o \in Outcomes :
         LET r == delete_file(file_id, backend, o)
         IN  /\ ret' = r.value
             /\ propagated' = r.raised
             /\ backend' = r.backend
             /\ log' = InStep("call", r.log)
    /\ called' = "delete_file"
    /\ UNCHANGED nextId
    /\ UNCHANGED << fileVars, chatVars >>

ApiNext == CallGetInfo \/ CallUpload \/ CallDelete

ApiSpec == Init /\ [][ApiNext]_vars

----------------------------------------------------------------------------
(* Chat session *)

\* What POST /chat can produce: a JSON body {answer, sources}, or an
\* exception raised on the client side (transport failure, non-2xx status,
\* a body without "answer").
ChatExceptions == {"ConnectionError", "HTTPError", "'answer'"}

ChatReplies ==
    { [exc |-> NoExc, answer |-> a, sources |-> src] :
        a \in Answers,
        src \in SeqsUpTo({ [filename |-> f] : f \in Filenames }, MaxSources) }
    \cup
    { [exc |-> e, answer |-> "", sources |-> <<>>] : e \in ChatExceptions }

\* Mutant: a pair whose reply is an inline error is left out of the history.
RECURSIVE ApiHistory_SkipErrors(_)
ApiHistory_SkipErrors(history) ==
    IF history = <<>> THEN <<>>
    ELSE (IF history[1][2][1] = "Error: " THEN <<>>
          ELSE << [role |-> "user", content |-> history[1][1]],
                  [role |-> "assistant", content |-> history[1][2]] >>)
         \o ApiHistory_SkipErrors(Tail(history))

\* The loop that converts history to the format expected by the API.
RECURSIVE ApiHistory(_)
ApiHistory(history) ==
    IF history = <<>> THEN <<>>
    ELSE << [role |-> "user", content |-> history[1][1]],
            [role |-> "assistant", content |-> history[1][2]] >>
         \o ApiHistory(Tail(history))

\* Mutant: the block is appended without the `if sources` test.
FormatAnswer_Always(answer, sources) ==
    <<answer>> \o <<"\n\nSources:\n">>
    \o JoinTexts([i \in DOMAIN sources |-> <<"- ", sources[i].filename>>], "\n")

\* answer, with the sources appended.
FormatAnswer(answer, sources) ==
    IF sources # <<>>
    THEN <<answer>> \o <<"\n\nSources:\n">>
         \o JoinTexts([i \in DOMAIN sources |-> <<"- ", sources[i].filename>>], "\n")
    ELSE <<answer>>

\* Mutant: the except clause returns the history without the new pair.
chat_with_documents_Lost(message, history, r) ==
    LET api_history == ApiHistory(history)
        body == [query |-> message, history |-> api_history]
    IN  IF r.exc = NoExc
        THEN [raised |-> NoExc, sent |-> body,
              value |-> Append(history, <<message, FormatAnswer(r.answer, r.sources)>>)]
        ELSE [raised |-> NoExc, sent |-> body, value |-> history]

chat_with_documents(message, history, r) ==
    LET api_history == ApiHistory(history)
        body == [query |-> message, history |-> api_history]
    IN  IF r.exc = NoExc
        THEN [raised |-> NoExc, sent |-> body,
              value |-> Append(history, <<message, FormatAnswer(r.answer, r.sources)>>)]
        ELSE [raised |-> NoExc, sent |-> body,
              value |-> Append(history, <<message, <<"Error: ", r.exc>> >>)]

\* The handler of both chat events: inputs=[msg, chatbot], outputs=[chatbot].
RunChat(m) ==
    /\ msg' = m
    /\ \E r \in ChatReplies :
         LET c == chat_with_documents(m, chatbot, r)
         IN  /\ chatbot' = IF c.raised = NoExc THEN c.value ELSE chatbot
             /\ propagated' = c.raised
             /\ sent' = c.sent
             /\ reply' = r
    /\ chatpc' = "clear"
    /\ UNCHANGED << backend, nextId, log >>
    /\ UNCHANGED << fileVars, apiVars >>

\* submit_btn.click(fn=chat_with_documents, ...)
ClickSend ==
    /\ chatpc = "done"
    /\ Len(chatbot) < MaxTurns
    /\ \E m \in Messages : RunChat(m)

\* msg.submit(fn=chat_with_documents, ...)
SubmitMsg ==
    /\ chatpc = "done"
    /\ Len(chatbot) < MaxTurns
    /\ \E m \in Messages : RunChat(m)

\* .then(fn=lambda: "", inputs=None, outputs=[msg])
ThenClear ==
    /\ chatpc = "clear"
    /\ msg' = ""
    /\ chatpc' = "done"
    /\ UNCHANGED << backend, nextId, log, propagated, chatbot, sent, reply >>
    /\ UNCHANGED << fileVars, apiVars >>

ChatInit ==
    /\ backend = <<>>
    /\ nextId = 0
    /\ InitFiles /\ InitChat /\ InitApi

ChatNext == ClickSend \/ SubmitMsg \/ ThenClear

ChatSpec == ChatInit /\ [][ChatNext]_vars

----------------------------------------------------------------------------
(* Properties *)

\* Events of the log, selected.
EventsAt(step, op, phase) ==
    SelectSeq(log, LAMBDA e : e.step = step /\ e.op = op /\ e.phase = phase)

Http == SelectSeq(log, LAMBDA e : e.op # "open")

Names(files) == [k \in DOMAIN files |-> files[k].filename]

\* text holds the tokens of sub next to each other.
Contains(text, sub) ==
    \E k \in 0..(Len(text) - Len(sub)) : SubSeq(text, k + 1, k + Len(sub)) = sub

RefreshSteps == {"info", "choice", "debug"}

MutationDone == chain \in {"upload", "delete"} /\ pc = "done"

\* The successful fetches of the refresh steps, in the order they were made.
Refetched ==
    SelectSeq(log, LAMBDA e : /\ e.op = "GET" /\ e.phase = "end"
                              /\ e.res = "ok" /\ e.step \in RefreshSteps)

\* The upload or the delete of the chain changed the remote index.
Mutated ==
    \E k \in DOMAIN log : /\ log[k].op \in {"POST", "DELETE"}
                          /\ log[k].phase = "end" /\ log[k].res = "ok"

\* C1 as stated, for the two lists of filenames: once an upload or delete
\* chain that changed the index has run to its end, the choices of the
\* checkbox group and the debug listing both show the index snapshot that was
\* fetched last after the mutation.
C1_Original ==
    (MutationDone /\ Mutated /\ Refetched # <<>>) =>
        LET latest == Refetched[Len(Refetched)].data
        IN  /\ file_checkboxes.choices = Names(latest)
            /\ file_list_debug = latest

\* C1 as amended: once an upload or delete chain has run to its end, each of
\* the three refresh steps has fetched the index exactly once, after the
\* mutation, and its widget shows what that fetch of its own returned: the
\* index as the mutation left it when the fetch succeeded, and an error value
\* (database info) or an empty list (choices, debug listing) when it failed.
\* Nothing of what was displayed before survives.
C1_Refetched ==
    MutationDone =>
        /\ \A st \in RefreshSteps : Len(EventsAt(st, "GET", "end")) = 1
        /\ LET i == EventsAt("info", "GET", "end")[1]
               c == EventsAt("choice", "GET", "end")[1]
               d == EventsAt("debug", "GET", "end")[1]
           IN  /\ \A e \in {i, c, d} : e.res = "ok" => e.data = backend
               /\ db_info = IF i.res = "ok"
                            THEN [status |-> "success", files |-> i.data]
                            ELSE ErrorDict(<<i.res>>)
               /\ file_checkboxes = [choices |-> IF c.res = "ok"
                                                 THEN Names(c.data) ELSE <<>>,
                                     value |-> <<>>]
               /\ file_list_debug = IF d.res = "ok" THEN d.data ELSE <<>>

\* A delete chain that removed a document, left another one in the index and
\* fetched the index successfully in all three refresh steps.
C1_Witness ==
    /\ chain = "delete" /\ pc = "done"
    /\ \E k \in DOMAIN log : log[k].op = "DELETE" /\ log[k].res = "ok"
    /\ Len(Refetched) = 3
    /\ backend # <<>>
    /\ file_checkboxes.choices = Names(backend)

Order(c) ==
    IF c = "upload"
    THEN <<"upload_file", "get_vector_db_info", "update_file_checkboxes",
           "update_file_list_debug">>
    ELSE IF c = "delete"
    THEN <<"delete_files_from_db", "get_vector_db_info", "update_file_checkboxes",
           "update_file_list_debug">>
    ELSE IF c = "refresh"
    THEN <<"get_vector_db_info", "update_file_checkboxes", "update_file_list_debug">>
    ELSE <<>>

StepRank(step) ==
    IF step = "primary" THEN 1 ELSE IF step = "info" THEN 2
    ELSE IF step = "choice" THEN 3 ELSE 4

\* C2: the handlers a file-management chain has run are a prefix of primary
\* action, info refresh, choice refresh, debug refresh (the primary action of
\* the refresh chain being the info refresh itself), the whole of it once the
\* chain is done; the HTTP requests of the chain come one after the other, each
\* started only when the one before it has ended, in the order of the steps,
\* and none is in flight when a handler has returned.
C2_Sequential ==
    /\ ran = SubSeq(Order(chain), 1, Len(ran))
    /\ pc = "done" => ran = Order(chain)
    /\ Len(Http) % 2 = 0
    /\ \A k \in DOMAIN Http :
         /\ Http[k].phase = IF k % 2 = 1 THEN "start" ELSE "end"
         /\ k % 2 = 0 => /\ Http[k].op = Http[k - 1].op
                         /\ Http[k].arg = Http[k - 1].arg
                         /\ Http[k].step = Http[k - 1].step
                         /\ Http[k].tag = Http[k - 1].tag
         /\ k > 1 => StepRank(Http[k - 1].step) <= StepRank(Http[k].step)
    /\ \A st \in RefreshSteps :
         Len(EventsAt(st, "GET", "start")) =
            IF StepRank(st) - (IF chain = "refresh" THEN 1 ELSE 0) <= Len(ran)
               /\ chain # "none"
            THEN 1 ELSE 0

\* A delete chain run to its end that made six requests: the fetch and two
\* deletes of the handler, and the three fetches of the refresh steps.
C2_Witness ==
    /\ chain = "delete" /\ pc = "done"
    /\ Len(Http) = 12

Failure == \E k \in DOMAIN log : log[k].phase = "end" /\ log[k].res # "ok"

Attempts(ops) ==
    Len(SelectSeq(log, LAMBDA e : e.phase = "start" /\ e.op \in ops))

\* C3: whatever get_vector_db_info, upload_file or delete_file was called
\* with, no exception reaches the caller; when the HTTP round trip or the
\* reading of the local file failed, the function returns a value with status
\* "error" and a non-empty message, it has tried each only once, and every
\* function can be called again.
C3_ErrorsAreValues ==
    called # "none" =>
        /\ propagated = NoExc
        /\ Failure => /\ ret.status = "error"
                      /\ ret.message # <<>>
        /\ Attempts({"GET", "POST", "DELETE"}) <= 1
        /\ Attempts({"open"}) <= 1
        /\ ENABLED CallGetInfo /\ ENABLED CallUpload /\ ENABLED CallDelete

\* upload_file was called with a file that cannot be read.
C3_Witness ==
    /\ called = "upload_file"
    /\ Failure
    /\ ret = ErrorDict(<<"Upload error: ", "OSError">>)

\* C4: a chat call whose client side raises appends exactly the pair
\* (message, "Error: <exception text>") to the transcript it was given and
\* leaves the earlier pairs as they were.
C4_ErrorAppended ==
    [][ (chatpc = "done" /\ chatpc' = "clear" /\ reply'.exc # NoExc) =>
            /\ chatbot' = Append(chatbot, <<msg', <<"Error: ", reply'.exc>> >>)
            /\ Len(chatbot') = Len(chatbot) + 1
            /\ propagated' = NoExc ]_vars

\* A failed chat call on a transcript that already held a pair.
C4_Witness ==
    /\ chatpc = "clear"
    /\ reply.exc # NoExc
    /\ Len(chatbot) = 2
    /\ chatbot[2] = <<msg, <<"Error: ", reply.exc>> >>

AfterDelete == chain = "delete" /\ pc \in {"info", "choice"}

Sel == file_checkboxes.value

\* The index as the handler's own fetch returned it.
Snapshot ==
    LET got == EventsAt("primary", "GET", "end")
    IN  IF got # <<>> /\ got[1].res = "ok" THEN got[1].data ELSE <<>>

DeleteEnds(i) ==
    SelectSeq(log, LAMBDA e : e.op = "DELETE" /\ e.phase = "end" /\ e.tag = i)

Succeeded(i) == DeleteEnds(i) # <<>> /\ DeleteEnds(i)[1].res = "ok"

Reason(i) == IF DeleteEnds(i) = <<>> THEN "Not found" ELSE DeleteEnds(i)[1].res

SelIndices == [i \in DOMAIN Sel |-> i]

\* C5: for a non-empty selection the summary is the clause "Deleted: " with
\* the filenames whose delete call succeeded, followed by the clause
\* "Errors: " with "<name>: <reason>" for every other selected filename, the
\* reason being "Not found" when the name is not in the snapshot; a clause with
\* nothing to name is left out, and "No files deleted." stands for both.
C5_Summary ==
    (AfterDelete /\ Sel # <<>>) =>
        LET ok   == SelectSeq(SelIndices, LAMBDA i : Succeeded(i))
            bad  == SelectSeq(SelIndices, LAMBDA i : ~Succeeded(i))
            deletedClause ==
                IF ok = <<>> THEN <<>>
                ELSE <<"Deleted: ">> \o Join([k \in DOMAIN ok |-> Sel[ok[k]]], ", ")
                     \o <<". ">>
            errorsClause ==
                IF bad = <<>> THEN <<>>
                ELSE <<"Errors: ">>
                     \o JoinTexts([k \in DOMAIN bad |->
                                     <<Sel[bad[k]], ": ", Reason(bad[k])>>], "; ")
        IN  /\ delete_status = IF ok = <<>> /\ bad = <<>>
                               THEN <<"No files deleted.">>
                               ELSE deletedClause \o errorsClause
            /\ \A i \in DOMAIN Sel :
                 (\A k \in DOMAIN Snapshot : Snapshot[k].filename # Sel[i])
                     => Reason(i) = "Not found"

\* The example of the specification: a.pdf and missing.pdf selected, only
\* a.pdf in the index, its delete call successful.
C5_Witness ==
    /\ AfterDelete
    /\ Sel = <<"a.pdf", "missing.pdf">>
    /\ Names(Snapshot) = <<"a.pdf">>
    /\ Contains(delete_status, <<"Deleted: ", "a.pdf">>)
    /\ Contains(delete_status, <<"Errors: ", "missing.pdf", ": ", "Not found">>)

JustChatted == chatpc = "clear" /\ reply.exc = NoExc

Stored == chatbot[Len(chatbot)][2]

\* The shape both readings of C6 share: the raw answer alone for no source;
\* else the raw answer, the header, and one line "- <filename>" per source.
SourcesBlock ==
    LET n == Len(reply.sources)
    IN  IF n = 0 THEN Stored = <<reply.answer>>
        ELSE /\ Len(Stored) = 3 * n + 1
             /\ Stored[1] = reply.answer
             /\ Stored[2] = "\n\nSources:\n"
             /\ \A k \in 1..n :
                  /\ Stored[3 * k] = "- "
                  /\ Stored[3 * k + 1] = reply.sources[k].filename
                  /\ k < n => Stored[3 * k + 2] = "\n"

\* C6 as stated: after a successful chat turn the stored answer is the raw
\* answer alone when no source came back, and otherwise the raw answer
\* followed by a block that lists the distinct source filenames, each on one
\* line of its own: no filename is listed twice.
C6_Original ==
    JustChatted =>
        /\ SourcesBlock
        /\ \A j, k \in 1..Len(reply.sources) :
             j # k => Stored[3 * j + 1] # Stored[3 * k + 1]

\* C6 as amended: after a successful chat turn the stored answer is the raw
\* answer alone when no source came back, and otherwise the raw answer
\* followed by a block with one line "- <filename>" per returned source, in the
\* order returned, a filename returned more than once being listed once per
\* occurrence; so every distinct source filename is listed.
C6_SourcesBlock ==
    JustChatted =>
        /\ SourcesBlock
        /\ \A k \in DOMAIN reply.sources :
             Contains(Stored, <<"- ", reply.sources[k].filename>>)

\* A successful turn whose two sources name the same file.
C6_Witness ==
    /\ JustChatted
    /\ Len(reply.sources) = 2
    /\ reply.sources[1].filename = reply.sources[2].filename
    /\ Len(Stored) = 7

C8_EmptySelection ==
    (AfterDelete /\ Sel = <<>>) =>
        /\ delete_status = <<"No files selected.">>
        /\ EventsAt("primary", "GET", "start") = <<>>
        /\ EventsAt("primary", "DELETE", "start") = <<>>
        /\ \A k \in DOMAIN log : log[k].step # "primary"

\* The delete handler has run on an empty selection while the index held a
\* document.
C8_Witness ==
    /\ chain = "delete" /\ pc = "info"
    /\ Sel = <<>>
    /\ backend # <<>>

\* C9: with no file selected upload_file returns status "error" with the
\* message "No file selected", and has neither made a network call nor opened
\* a local file.
C9_NoFile ==
    (chain = "upload" /\ ~file_upload.present) =>
        /\ status_box = ErrorDict(<<"No file selected">>)
        /\ \A k \in DOMAIN log : log[k].step # "primary"
        /\ propagated = NoExc

\* The upload handler has run with no file selected.
C9_Witness ==
    /\ chain = "upload" /\ pc = "info"
    /\ ~file_upload.present
    /\ log = <<>>

FirstMatch(files, fname) ==
    LET hits == { k \in DOMAIN files : files[k].filename = fname }
    IN  CHOOSE k \in hits : \A j \in hits : k <= j

DeleteStarts(i) ==
    SelectSeq(log, LAMBDA e : e.op = "DELETE" /\ e.phase = "start" /\ e.tag = i)

\* C10: delete_files_from_db fetches the index once, before any delete call;
\* for every selected filename with a record in that snapshot it makes one
\* delete call, for the file_id of the first such record; for every selected
\* filename without one it makes no delete call and reports
\* "<name>: Not found".
C10_Resolution ==
    (AfterDelete /\ Sel # <<>>) =>
        /\ Len(EventsAt("primary", "GET", "start")) = 1
        /\ log[1].op = "GET"
        /\ \A i \in DOMAIN Sel :
             IF \E k \in DOMAIN Snapshot : Snapshot[k].filename = Sel[i]
             THEN /\ Len(DeleteStarts(i)) = 1
                  /\ DeleteStarts(i)[1].arg =
                        Snapshot[FirstMatch(Snapshot, Sel[i])].file_id
             ELSE /\ DeleteStarts(i) = <<>>
                  /\ Contains(delete_status, <<Sel[i], ": ", "Not found">>)

\* Two records of the snapshot share the selected filename, and the delete
\* call went to the first of them.
C10_Witness ==
    /\ AfterDelete
    /\ Sel = <<"a.pdf">>
    /\ Names(Snapshot) = <<"a.pdf", "a.pdf">>
    /\ DeleteStarts(1)[1].arg = Snapshot[1].file_id
    /\ Snapshot[1].file_id # Snapshot[2].file_id

====
